---- MODULE Spec2Model ----
(***************************************************************************)
(* Tic-tac-toe game state of src/tic_tac_frontend/src/App.js.              *)
(*                                                                         *)
(* The App component keeps five pieces of React state (squares, xIsNext,   *)
(* winnerInfo, isDraw, theme) and two passive effects.  An event handler   *)
(* only queues state updates; React then re-renders, commits, and runs the *)
(* passive effects whose dependencies changed.  React flushes the passive  *)
(* effects of a commit (and the re-render they queue) before it dispatches *)
(* the next discrete event, so the handlers of this model are enabled only *)
(* when no effect is pending.  The state between the commit of a handler's *)
(* updates and the flush of the effects is a state of the model: it is the *)
(* state the component was rendered with (renderStatus ran on it).         *)
(*                                                                         *)
(* JavaScript values: null is the string "null", undefined (a read outside *)
(* the array's own properties) is "undefined", the marks are "X" and "O".  *)
(* An array is a function from its own integer property names to values;   *)
(* a null line is the empty tuple.                                         *)
(***************************************************************************)
EXTENDS Integers, FiniteSets, Sequences, TLC

VARIABLES
    squares,         \* useState(Array(9).fill(null))
    xIsNext,         \* useState(true)
    winnerInfo,      \* useState({ winner: null, line: null })
    isDraw,          \* useState(false)
    theme,           \* useState('light')
    dataTheme,       \* document.documentElement's data-theme attribute
    pendingEffects,  \* passive effects scheduled by the last commit
    lastEvent,       \* history: the last user event dispatched to a handler
    lastMove,        \* history: <<cell, mark>> of the last accepted move
                     \* since the last reset, <<>> when there is none
    accepted         \* history: accepted moves since the last reset

vars == <<squares, xIsNext, winnerInfo, isDraw, theme, dataTheme,
          pendingEffects, lastEvent, lastMove, accepted>>

----------------------------------------------------------------------------
(* Values *)

Null == "null"
Undefined == "undefined"
Mark == {"X", "O"}
Cell == Mark \cup {Null}

\* JavaScript truthiness of the values a cell or a winner can hold.
Truthy(v) == v \notin {Null, Undefined}

\* Array(9): the board has nine cells, indexed 0..8.
BoardSize == 9
CellIdx == 0 .. (BoardSize - 1)

\* Array(9).fill(null)
EmptyBoard == [k \in CellIdx |-> Null]

\* { winner: null, line: null }
NoLine == <<>>
NoWinner == [winner |-> Null, line |-> NoLine]

\* Indices a direct call of the handler is tried with, beyond the nine cells
\* the Board component emits: LowExtra below 0 and HighExtra from 9 up.
LowExtra == 0
HighExtra == 1
AnyIdx == (0 - LowExtra) .. (BoardSize - 1 + HighExtra)

----------------------------------------------------------------------------
(* Arrays *)

\* squares[i]: undefined outside the array's own properties.
Get(sq, i) == IF i \in DOMAIN sq THEN sq[i] ELSE Undefined

\* squares.length: one more than the largest array index.
Length(sq) ==
    LET idx == {k \in DOMAIN sq : k >= 0}
    IN  IF idx = {} THEN 0 ELSE 1 + (CHOOSE m \in idx : \A k \in idx : k <= m)

\* squares.slice(): the elements at array indices 0..length-1; a property
\* that is not an array index (a negative name) is not copied.
Slice(sq) == [k \in {j \in DOMAIN sq : j >= 0} |-> sq[k]]

\* a[i] = v on array a.
Store(a, i, v) == [k \in (DOMAIN a) \cup {i} |-> IF k = i THEN v ELSE a[k]]

\* squares.every(Boolean): visits the array indices that hold an element.
every(sq) == \A k \in DOMAIN sq : k >= 0 => Truthy(sq[k])

----------------------------------------------------------------------------
(* calculateWinner *)

lines_noTopRow ==
    << <<3, 4, 5>>, <<6, 7, 8>>,
       <<0, 3, 6>>, <<1, 4, 7>>, <<2, 5, 8>>,
       <<0, 4, 8>>, <<2, 4, 6>> >>

lines_noAntiDiagonal ==
    << <<0, 1, 2>>, <<3, 4, 5>>, <<6, 7, 8>>,
       <<0, 3, 6>>, <<1, 4, 7>>, <<2, 5, 8>>,
       <<0, 4, 8>> >>

lines ==
    << <<0, 1, 2>>, <<3, 4, 5>>, <<6, 7, 8>>,
       <<0, 3, 6>>, <<1, 4, 7>>, <<2, 5, 8>>,
       <<0, 4, 8>>, <<2, 4, 6>> >>

\* The test of one line in the loop body.
lineMatches(sq, line) ==
    /\ Truthy(Get(sq, line[1]))
    /\ Get(sq, line[1]) = Get(sq, line[2])
    /\ Get(sq, line[1]) = Get(sq, line[3])

\* for (let line of lines) from position k on: the first match returns.
RECURSIVE scanLines(_, _)
scanLines(sq, k) ==
    IF k > Len(lines) THEN NoWinner
    ELSE IF lineMatches(sq, lines[k])
         THEN [winner |-> Get(sq, lines[k][1]), line |-> lines[k]]
         ELSE scanLines(sq, k + 1)

\* A loop without the early return: the last match is the one kept.
RECURSIVE scanLinesKeepLast(_, _, _)
scanLinesKeepLast(sq, k, found) ==
    IF k > Len(lines) THEN found
    ELSE scanLinesKeepLast(sq, k + 1,
            IF lineMatches(sq, lines[k])
            THEN [winner |-> Get(sq, lines[k][1]), line |-> lines[k]]
            ELSE found)

calculateWinner_lastMatch(sq) == scanLinesKeepLast(sq, 1, NoWinner)

calculateWinner(sq) == scanLines(sq, 1)

----------------------------------------------------------------------------
(* The effect on [squares]: winnerInfo and isDraw recomputed from the board *)

squaresEffect_neverDraw(sq) ==
    LET w == calculateWinner(sq)
    IN  IF Truthy(w.winner) THEN [winnerInfo |-> w, isDraw |-> FALSE]
        ELSE [winnerInfo |-> NoWinner, isDraw |-> FALSE]

squaresEffect_noWinnerStored(sq) ==
    LET w == calculateWinner(sq)
    IN  IF Truthy(w.winner) THEN [winnerInfo |-> NoWinner, isDraw |-> FALSE]
        ELSE IF every(sq) THEN [winnerInfo |-> NoWinner, isDraw |-> TRUE]
        ELSE [winnerInfo |-> NoWinner, isDraw |-> FALSE]

squaresEffect_drawOnFullBoard(sq) ==
    LET w == calculateWinner(sq)
    IN  IF every(sq) THEN [winnerInfo |-> NoWinner, isDraw |-> TRUE]
        ELSE IF Truthy(w.winner) THEN [winnerInfo |-> w, isDraw |-> FALSE]
        ELSE [winnerInfo |-> NoWinner, isDraw |-> FALSE]

squaresEffect_keepDraw(sq) ==
    LET w == calculateWinner(sq)
    IN  IF Truthy(w.winner) THEN [winnerInfo |-> w, isDraw |-> FALSE]
        ELSE IF every(sq) THEN [winnerInfo |-> NoWinner, isDraw |-> TRUE]
        ELSE [winnerInfo |-> NoWinner, isDraw |-> isDraw]

squaresEffect(sq) ==
    LET w == calculateWinner(sq)
    IN  IF Truthy(w.winner) THEN [winnerInfo |-> w, isDraw |-> FALSE]
        ELSE IF every(sq) THEN [winnerInfo |-> NoWinner, isDraw |-> TRUE]
        ELSE [winnerInfo |-> NoWinner, isDraw |-> FALSE]

\* React runs the passive effects of the last commit in declaration order:
\* the [theme] effect, then the [squares] effect.
FlushPassiveEffects ==
    /\ pendingEffects # {}
    /\ dataTheme' = IF "theme" \in pendingEffects THEN theme ELSE dataTheme
    /\ IF "squares" \in pendingEffects
       THEN /\ winnerInfo' = squaresEffect(squares).winnerInfo
            /\ isDraw' = squaresEffect(squares).isDraw
       ELSE UNCHANGED <<winnerInfo, isDraw>>
    /\ pendingEffects' = {}
    /\ UNCHANGED <<squares, xIsNext, theme, lastEvent, lastMove, accepted>>

----------------------------------------------------------------------------
(* Handlers *)

toggleTheme ==
    /\ pendingEffects = {}
    /\ theme' = IF theme = "light" THEN "dark" ELSE "light"
    /\ pendingEffects' = {"theme"}
    /\ lastEvent' = <<"toggleTheme">>
    /\ UNCHANGED <<squares, xIsNext, winnerInfo, isDraw, dataTheme>>
    /\ UNCHANGED <<lastMove, accepted>>

\* if (winnerInfo.winner || squares[i]) return;
ignoreClick_noFilledCheck(w, sq, i) == Truthy(w.winner)

ignoreClick_noWinnerCheck(w, sq, i) == Truthy(Get(sq, i))

ignoreClick(w, sq, i) == Truthy(w.winner) \/ Truthy(Get(sq, i))

\* xIsNext ? 'X' : 'O'
nextMark_swapped(x) == IF x THEN "O" ELSE "X"

nextMark_alwaysX(x) == "X"

nextMark(x) == IF x THEN "X" ELSE "O"

\* const nextSquares = squares.slice(); nextSquares[i] = mark;
placeMark_freshArray(sq, i, m) == Store(EmptyBoard, i, m)

placeMark(sq, i, m) == Store(Slice(sq), i, m)

handleSquareClick_noFlip(i) ==
    /\ pendingEffects = {}
    /\ lastEvent' = <<"click", i>>
    /\ IF ignoreClick(winnerInfo, squares, i)
       THEN UNCHANGED <<squares, pendingEffects, lastMove, accepted>>
       ELSE /\ squares' = placeMark(squares, i, nextMark(xIsNext))
            /\ pendingEffects' = {"squares"}
            /\ lastMove' = <<i, nextMark(xIsNext)>>
            /\ accepted' = accepted + 1
    /\ UNCHANGED <<xIsNext, winnerInfo, isDraw, theme, dataTheme>>

handleSquareClick(i) ==
    /\ pendingEffects = {}
    /\ lastEvent' = <<"click", i>>
    /\ IF ignoreClick(winnerInfo, squares, i)
       THEN UNCHANGED <<squares, xIsNext, pendingEffects, lastMove, accepted>>
       ELSE /\ squares' = placeMark(squares, i, nextMark(xIsNext))
            /\ xIsNext' = ~xIsNext
            /\ pendingEffects' = {"squares"}
            /\ lastMove' = <<i, nextMark(xIsNext)>>
            /\ accepted' = accepted + 1
    /\ UNCHANGED <<winnerInfo, isDraw, theme, dataTheme>>

handleReset_resetsTheme ==
    /\ pendingEffects = {}
    /\ squares' = EmptyBoard
    /\ xIsNext' = TRUE
    /\ winnerInfo' = NoWinner
    /\ isDraw' = FALSE
    /\ theme' = "light"
    /\ pendingEffects' = {"squares"} \cup (IF theme = "light" THEN {} ELSE {"theme"})
    /\ lastEvent' = <<"reset">>
    /\ lastMove' = <<>>
    /\ accepted' = 0
    /\ UNCHANGED dataTheme

handleReset_keepTurn ==
    /\ pendingEffects = {}
    /\ squares' = EmptyBoard
    /\ winnerInfo' = NoWinner
    /\ isDraw' = FALSE
    /\ pendingEffects' = {"squares"}
    /\ lastEvent' = <<"reset">>
    /\ lastMove' = <<>>
    /\ accepted' = 0
    /\ UNCHANGED <<xIsNext, theme, dataTheme>>

\* setSquares gets a new array each time, so the [squares] effect runs again.
handleReset ==
    /\ pendingEffects = {}
    /\ squares' = EmptyBoard
    /\ xIsNext' = TRUE
    /\ winnerInfo' = NoWinner
    /\ isDraw' = FALSE
    /\ pendingEffects' = {"squares"}
    /\ lastEvent' = <<"reset">>
    /\ lastMove' = <<>>
    /\ accepted' = 0
    /\ UNCHANGED <<theme, dataTheme>>

----------------------------------------------------------------------------
(* Specifications *)

\* The first render: the useState initial values, both effects to run.
Init ==
    /\ squares = EmptyBoard
    /\ xIsNext = TRUE
    /\ winnerInfo = NoWinner
    /\ isDraw = FALSE
    /\ theme = "light"
    /\ dataTheme = "unset"
    /\ pendingEffects = {"theme", "squares"}
    /\ lastEvent = <<"mount">>
    /\ lastMove = <<>>
    /\ accepted = 0

\* The Board component renders the squares row * 3 + col, row, col in 0..2,
\* so the clicks of the application carry an index in 0..8.
Next ==
    \/ \E i \in CellIdx : handleSquareClick(i)
    \/ handleReset
    \/ toggleTheme
    \/ FlushPassiveEffects

Spec == Init /\ [][Next]_vars

\* The handler called with any integer index, as its own contract.
NextAnyIndex ==
    \/ \E i \in AnyIdx : handleSquareClick(i)
    \/ handleReset
    \/ FlushPassiveEffects

SpecAnyIndex == Init /\ [][NextAnyIndex]_vars

\* The outcome computation on every 9-cell board: the component rendered
\* with an arbitrary board and an arbitrary stale outcome, the [squares]
\* effect still to run.
StaleOutcome == {NoWinner, [winner |-> "X", line |-> <<0, 1, 2>>]}

InitBoards ==
    /\ squares \in [CellIdx -> Cell]
    /\ xIsNext = TRUE
    /\ winnerInfo \in StaleOutcome
    /\ isDraw \in BOOLEAN
    /\ theme = "light"
    /\ dataTheme = "light"
    /\ pendingEffects = {"squares"}
    /\ lastEvent = <<"mount">>
    /\ lastMove = <<>>
    /\ accepted = 0

NextBoards == FlushPassiveEffects

SpecBoards == InitBoards /\ [][NextBoards]_vars

\* A move request that is accepted.
AcceptedMove == \E i \in CellIdx : handleSquareClick(i) /\ squares' # squares

\* The application when React runs every scheduled effect (weak fairness of
\* the flush) and the players keep asking for moves on empty cells (strong
\* fairness of the accepted move: it is disabled while an effect is pending).
SpecFair ==
    /\ Init
    /\ [][Next]_vars
    /\ WF_vars(FlushPassiveEffects)
    /\ SF_vars(AcceptedMove)

----------------------------------------------------------------------------
(* Vocabulary of the properties, stated on the board alone *)

\* The 8 triples: 3 rows, 3 columns, 2 diagonals (row = index \div 3,
\* col = index % 3).
Triples ==
    {{3 * r, 3 * r + 1, 3 * r + 2} : r \in 0 .. 2}
        \cup {{c, c + 3, c + 6} : c \in 0 .. 2}
        \cup {{0, 4, 8}, {2, 4, 6}}

Completed(sq, t) == \E m \in Mark : \A k \in t : Get(sq, k) = m

HasThreeInRow(sq) == \E t \in Triples : Completed(sq, t)

Full(sq) == \A k \in CellIdx : Get(sq, k) \in Mark

BoardInProgress(sq) == ~HasThreeInRow(sq) /\ ~Full(sq)

\* The fixed order of the triples: rows, columns, diagonals.
TripleOrder ==
    << <<0, 1, 2>>, <<3, 4, 5>>, <<6, 7, 8>>,
       <<0, 3, 6>>, <<1, 4, 7>>, <<2, 5, 8>>,
       <<0, 4, 8>>, <<2, 4, 6>> >>

AsSet(line) == {line[n] : n \in 1 .. Len(line)}

IsInitialGame ==
    /\ DOMAIN squares = CellIdx
    /\ \A k \in CellIdx : squares[k] = Null
    /\ xIsNext = TRUE
    /\ winnerInfo = [winner |-> Null, line |-> <<>>]
    /\ isDraw = FALSE

\* A step in which handleSquareClick(i) runs: handlers run only when no
\* effect is pending, and only this handler records a click of i.
ClickStep(i) == pendingEffects = {} /\ lastEvent' = <<"click", i>>

ResetStep == pendingEffects = {} /\ lastEvent' = <<"reset">>

----------------------------------------------------------------------------
(* Properties *)

\* C1: a click on an EMPTY cell i of 0..8 while the game is in progress
\* sets exactly cell i to the mark of the player to move (X if xIsNext, O
\* otherwise), leaves the other 8 cells as they were, and flips xIsNext.
C1_MovePlacesMarkAndFlipsTurn ==
    [][\A i \in CellIdx :
          (ClickStep(i) /\ BoardInProgress(squares) /\ squares[i] = Null)
              => /\ DOMAIN squares' = CellIdx
                 /\ squares'[i] = (IF xIsNext THEN "X" ELSE "O")
                 /\ \A k \in CellIdx \ {i} : squares'[k] = squares[k]
                 /\ xIsNext' = ~xIsNext]_vars

\* An accepted move of O on cell 4, its effect still to run.
C1_Witness ==
    /\ lastEvent = <<"click", 4>>
    /\ pendingEffects = {"squares"}
    /\ squares[4] = "O"
    /\ xIsNext = TRUE

\* C2: a click on a cell that already holds X or O changes neither the
\* board nor the turn flag.
C2_OccupiedCellIgnored ==
    [][\A i \in CellIdx :
          (ClickStep(i) /\ squares[i] \in Mark)
              => UNCHANGED <<squares, xIsNext>>]_vars

\* A click on a cell that holds the mark of the player still to move, in a
\* game without winner: the click was rejected because the cell is occupied.
C2_Witness ==
    /\ lastEvent = <<"click", 0>>
    /\ pendingEffects = {}
    /\ squares[0] = "X"
    /\ xIsNext = TRUE
    /\ BoardInProgress(squares)

C4_OutOfRangeIgnored ==
    [][\A i \in AnyIdx \ CellIdx :
          ClickStep(i)
              => /\ UNCHANGED <<squares, xIsNext, winnerInfo, isDraw>>
                 /\ Length(squares') = BoardSize]_vars

\* C5: after a reset, from whatever state, the game is in its initial
\* state (9 EMPTY cells, X to move, no winner, no line, not a draw), both
\* before and after the outcome recomputation that follows the reset.
C5_ResetRestoresInitialGame ==
    lastEvent = <<"reset">> => IsInitialGame

\* A reset made with the dark theme on (so not the first event), its
\* outcome recomputation done.
C5_Witness ==
    /\ lastEvent = <<"reset">>
    /\ pendingEffects = {}
    /\ theme = "dark"
    /\ IsInitialGame

\* C6: for every board with a row, column or diagonal of three identical
\* marks, the computed outcome has a winner in {X, O} and a line that is
\* one of the 8 triples and whose three cells all hold the winner's mark.
C6_CompletedLineIsReported ==
    (pendingEffects = {} /\ HasThreeInRow(squares))
        => /\ winnerInfo.winner \in Mark
           /\ Len(winnerInfo.line) = 3
           /\ AsSet(winnerInfo.line) \in Triples
           /\ \A k \in AsSet(winnerInfo.line) : squares[k] = winnerInfo.winner

\* O on the anti-diagonal only.
C6_Witness ==
    /\ pendingEffects = {}
    /\ \A k \in CellIdx : squares[k] = (IF k \in {2, 4, 6} THEN "O" ELSE Null)
    /\ winnerInfo = [winner |-> "O", line |-> <<2, 4, 6>>]

\* C7: for a board without EMPTY cell, the recomputed outcome is Draw (no
\* winner, no line, isDraw) when no triple is completed, and Won (a winner,
\* not isDraw) when one is.
C7_FullBoardDrawOrWon ==
    (pendingEffects = {} /\ Full(squares))
        => IF HasThreeInRow(squares)
           THEN winnerInfo.winner \in Mark /\ isDraw = FALSE
           ELSE winnerInfo = [winner |-> Null, line |-> <<>>] /\ isDraw = TRUE

\* The full board X O X / O X O / O X O recomputed: a draw.
C7_Witness ==
    /\ pendingEffects = {}
    /\ squares = [k \in CellIdx |-> IF k \in {0, 2, 4, 7} THEN "X" ELSE "O"]
    /\ isDraw = TRUE

\* C8: for a board with an EMPTY cell and no completed triple, the
\* recomputed outcome is InProgress: no winner, no line, isDraw false.
C8_OpenBoardInProgress ==
    (pendingEffects = {} /\ BoardInProgress(squares))
        => winnerInfo = [winner |-> Null, line |-> <<>>] /\ isDraw = FALSE

\* A board with two marks recomputed.
C8_Witness ==
    /\ pendingEffects = {}
    /\ squares = [k \in CellIdx |->
                    IF k = 0 THEN "X" ELSE IF k = 4 THEN "O" ELSE Null]
    /\ winnerInfo = [winner |-> Null, line |-> <<>>]
    /\ isDraw = FALSE

\* C9: the outcome computed for a board is the first completed triple of
\* the fixed order rows, columns, diagonals, with the mark it holds,
\* whatever else is completed and whatever outcome was stored before.
C9_FirstTripleInOrderWins ==
    pendingEffects = {}
        => \A n \in 1 .. Len(TripleOrder) :
              (/\ Completed(squares, AsSet(TripleOrder[n]))
               /\ \A j \in 1 .. (n - 1) :
                     ~Completed(squares, AsSet(TripleOrder[j])))
                  => winnerInfo = [winner |-> squares[TripleOrder[n][1]],
                                   line |-> TripleOrder[n]]

\* X completes the row 6,7,8 and the column 0,3,6 at once: the row, earlier
\* in the order, is the one reported.
C9_Witness ==
    /\ pendingEffects = {}
    /\ Completed(squares, {6, 7, 8})
    /\ Completed(squares, {0, 3, 6})
    /\ ~Completed(squares, {0, 1, 2})
    /\ ~Completed(squares, {3, 4, 5})
    /\ winnerInfo.line = <<6, 7, 8>>

\* C10: the board always has exactly the 9 cells 0..8, each EMPTY, X or O,
\* and no step other than a reset changes a cell that holds X or O.
C10_BoardShapeAndMarksKept ==
    /\ [](DOMAIN squares = CellIdx /\ \A k \in CellIdx : squares[k] \in Cell)
    /\ [][~ResetStep
             => \A k \in CellIdx :
                   squares[k] \in Mark => squares'[k] = squares[k]]_vars

\* A board filled by nine accepted moves, every mark still in place.
C10_Witness ==
    /\ pendingEffects = {}
    /\ Full(squares)
    /\ isDraw = TRUE

Other(m) == IF m = "X" THEN "O" ELSE "X"

Count(sq, m) == Cardinality({k \in CellIdx : Get(sq, k) = m})

StoredWon == winnerInfo.winner \in Mark

StoredTerminal == StoredWon \/ isDraw = TRUE

ToggleStep == pendingEffects = {} /\ lastEvent' = <<"toggleTheme">>

\* C11: between two resets the marks of consecutive accepted moves
\* alternate, starting with X; xIsNext flips at each accepted move, and no
\* rejected move, outcome recomputation or theme toggle changes it.
C11_MarksAlternateFromX ==
    [][/\ \A i \in CellIdx :
             (ClickStep(i) /\ squares' # squares)
                 => /\ xIsNext' = ~xIsNext
                    /\ squares'[i] = (IF lastMove = <<>> THEN "X"
                                      ELSE Other(lastMove[2]))
       /\ (~ResetStep /\ squares' = squares) => xIsNext' = xIsNext]_vars

\* Three moves accepted (X, O, X), then a theme toggle: still O to move.
C11_Witness ==
    /\ accepted = 3
    /\ lastMove # <<>>
    /\ lastMove[2] = "X"
    /\ xIsNext = FALSE
    /\ lastEvent = <<"toggleTheme">>

\* C12: in every state the component is rendered with, winnerInfo is
\* calculateWinner(squares) and isDraw is true exactly when the board is
\* full without completed triple.
C12_StoredOutcomeAgreesWithBoard ==
    /\ winnerInfo = calculateWinner(squares)
    /\ isDraw = (Full(squares) /\ ~HasThreeInRow(squares))

\* C13: once the stored outcome is Won or Draw, no step other than a reset
\* changes the winner, the line or the draw flag.
C13_TerminalOutcomeStays ==
    [][(StoredTerminal /\ ~ResetStep) => UNCHANGED <<winnerInfo, isDraw>>]_vars

\* O has won, and a theme toggle and its effect have run since.
C13_Witness ==
    /\ winnerInfo.winner = "O"
    /\ lastEvent = <<"toggleTheme">>
    /\ pendingEffects = {}
    /\ dataTheme = "dark"

WinScenario == <<0, 4, 1, 5, 2>>

WinScenarioBoard(n) ==
    [k \in CellIdx |->
        IF \E m \in 1 .. n : WinScenario[m] = k
        THEN IF (CHOOSE m \in 1 .. n : WinScenario[m] = k) % 2 = 1
             THEN "X" ELSE "O"
        ELSE Null]

\* C15: from the empty board, the clicks 0, 4, 1, 5, 2 are each accepted
\* and place X, O, X, O, X; the outcome recomputed after the last one is
\* Won with winner X and line [0,1,2].
C15_WinScenario ==
    /\ [][\A n \in 1 .. Len(WinScenario) :
             (ClickStep(WinScenario[n]) /\ squares = WinScenarioBoard(n - 1))
                 => /\ squares' = WinScenarioBoard(n)
                    /\ accepted' = accepted + 1]_vars
    /\ []((pendingEffects = {} /\ squares = WinScenarioBoard(Len(WinScenario)))
             => /\ winnerInfo = [winner |-> "X", line |-> <<0, 1, 2>>]
                /\ isDraw = FALSE)

\* The scenario played to its end, the last move being X on cell 2.
C15_Witness ==
    /\ pendingEffects = {}
    /\ squares = WinScenarioBoard(Len(WinScenario))
    /\ lastMove = <<2, "X">>
    /\ accepted = Len(WinScenario)
    /\ winnerInfo = [winner |-> "X", line |-> <<0, 1, 2>>]

\* The board of C16, X O X / O X O / O X O: 4 X and 5 O.
DrawScenarioBoard ==
    [k \in CellIdx |-> IF k \in {0, 2, 4, 7} THEN "X" ELSE "O"]

\* A full board without triple that has 5 X and 4 O: X O X / X O O / O X X.
PlayableDrawBoard ==
    [k \in CellIdx |-> IF k \in {0, 2, 3, 7, 8} THEN "X" ELSE "O"]

\* C16 as claimed: the move that fills the last empty cell of the board
\* X,O,X,O,X,O,O,X,O completes that board, and the game then is a Draw.
C16_ScenarioFillsBoardToDraw ==
    /\ [][\A i \in CellIdx :
             (ClickStep(i) /\ squares = [DrawScenarioBoard EXCEPT ![i] = Null])
                 => squares' = DrawScenarioBoard]_vars
    /\ []((pendingEffects = {} /\ squares = DrawScenarioBoard)
             => isDraw = TRUE /\ winnerInfo.winner = Null)

\* C16 amended: no game holds the board X,O,X,O,X,O,O,X,O, and a game that
\* has filled the board without completed triple, outcome recomputed, is a
\* Draw (no winner, no line, isDraw).
C16_FilledBoardWithoutTripleIsDraw ==
    /\ squares # DrawScenarioBoard
    /\ (pendingEffects = {} /\ Full(squares) /\ ~HasThreeInRow(squares))
          => /\ isDraw = TRUE
             /\ winnerInfo = [winner |-> Null, line |-> <<>>]

\* Nine accepted moves have filled the board as X O X / X O O / O X X.
C16_Witness ==
    /\ pendingEffects = {}
    /\ squares = PlayableDrawBoard
    /\ accepted = BoardSize
    /\ isDraw = TRUE

\* C17: a theme toggle switches theme between light and dark and changes
\* no game field; no other step changes theme, and the effect run after a
\* toggle changes no game field either.
C17_ThemeIndependentOfGame ==
    /\ [](theme \in {"light", "dark"})
    /\ [][/\ ToggleStep
                => /\ theme' = (IF theme = "light" THEN "dark" ELSE "light")
                   /\ UNCHANGED <<squares, xIsNext, winnerInfo, isDraw>>
          /\ ~ToggleStep => theme' = theme
          /\ pendingEffects = {"theme"}
                => UNCHANGED <<squares, xIsNext, winnerInfo, isDraw>>]_vars

\* The dark theme applied in the middle of a game, then a move accepted.
C17_Witness ==
    /\ theme = "dark"
    /\ dataTheme = "dark"
    /\ accepted = 2
    /\ lastEvent = <<"click", 8>>
    /\ pendingEffects = {"squares"}

\* C18: the board holds as many X as O, or one X more, and X is to move
\* exactly when the counts are equal.
C18_MarkCountsFollowTurn ==
    /\ Count(squares, "X") - Count(squares, "O") \in {0, 1}
    /\ xIsNext = (Count(squares, "X") = Count(squares, "O"))

\* Three X and two O on the board, O to move.
C18_Witness ==
    /\ Count(squares, "X") = 3
    /\ Count(squares, "O") = 2
    /\ xIsNext = FALSE

C20_GameEnds ==
    /\ [](/\ accepted <= BoardSize
          /\ StoredWon => accepted >= 5
          /\ (pendingEffects = {} /\ Full(squares)) => StoredTerminal)
    /\ []<>(StoredTerminal \/ lastEvent = <<"reset">>)

\* A game won with the fifth accepted move.
C20_Witness ==
    /\ accepted = 5
    /\ StoredWon
    /\ pendingEffects = {}

====
